---------------------------- MODULE Spec2Model ----------------------------
(***************************************************************************)
(* Report synthesizer of the Splatmeme printer (src/Joystick.c).           *)
(*                                                                         *)
(* The state is the set of file-scope variables of Joystick.c that         *)
(* GetNextReport reads or writes, the report handed back to HID_Task       *)
(* (ReportData) and the bitmap linked into the firmware (image).  One step *)
(* of the model is one call of GetNextReport from HID_Task, i.e. one tick  *)
(* on which Endpoint_IsINReady() is true; a tick on which the host is not  *)
(* ready changes nothing and is a stuttering step.                         *)
(*                                                                         *)
(* line_steps is a history variable: the number of MOVE and of STOP steps  *)
(* taken so far with the cursor on the current line.  No action reads it.  *)
(***************************************************************************)
EXTENDS Integers, Naturals, Sequences, FiniteSets, TLC

VARIABLES state, echoes, splat3_lag_correction_count, last_report,
          command_count, xpos, ypos, ReportData, image, line_steps

vars == <<state, echoes, splat3_lag_correction_count, last_report,
          command_count, xpos, ypos, ReportData, image, line_steps>>

---------------------------------------------------------------------------
(* Bounds of the model.                                                    *)

\* The firmware is linked with one bitmap; the model draws it from the
\* bitmaps numbered 0..MaxImage (see image_data below).
MaxImage == 2

---------------------------------------------------------------------------
(* Constants of the program.                                               *)

ECHOES == 2

\* Joystick.h is not part of the sources at hand; the values below follow
\* the wire layout of the specification (section 6) and its 8 ms poll
\* interval.
POLLING_MS == 8
HAT_CENTER == 0
HAT_TOP == 1
HAT_RIGHT == 3
HAT_BOTTOM == 5
HAT_LEFT == 7
STICK_MIN == 0
STICK_CENTER == 128

\* Literals of GetNextReport and of is_black.
CanvasMaxX == 319
CanvasMaxY == 119
LagCorrection == 10
RowBytes == 40
ImageLen == 4801

SWITCH_A == "SWITCH_A"
SWITCH_LCLICK == "SWITCH_LCLICK"

State_t == {"SYNC_CONTROLLER", "SYNC_POSITION", "MOVE", "STOP", "DONE"}

---------------------------------------------------------------------------
(* Pure helpers.                                                           *)

max(a, b) == IF a > b THEN a ELSE b

\* #define ms_2_count(ms) (ms / ECHOES / (max(POLLING_MS, 8) / 8 * 8))
ms_2_count(ms) == (ms \div ECHOES) \div ((max(POLLING_MS, 8) \div 8) * 8)

Pow2(k) == 2 ^ k

\* a & b for a byte a and a single-bit mask b = 2^k
BitAnd(a, k) == ((a \div Pow2(k)) % 2) * Pow2(k)

\* Content of the bitmap number img at byte index i.  Bitmap 0 is the
\* all-white bitmap, bitmap 1 has the single black pixel (0,0), the others
\* are mixed patterns (bitmap 2 has bit 0 of its last byte, index 4800, set).
image_data(img, i) ==
    IF img = 0 THEN 0
    ELSE IF img = 1 THEN (IF i = 0 THEN 1 ELSE 0)
    ELSE (i * (35 + img) + 2 * img - 3) % 256

pgm_read_byte(img, i) == image_data(img, i)

\* (variant: the bit mask of the lookup forgotten)
is_black_NoMask(img, x, y) ==
    pgm_read_byte(img, (x \div 8) + (y * RowBytes)) # 0

\* #define is_black(x, y) (pgm_read_byte(&(image_data[((x) / 8) + ((y) * 40)])) & 1 << ((x) % 8))
is_black(img, x, y) ==
    BitAnd(pgm_read_byte(img, (x \div 8) + (y * RowBytes)), x % 8) # 0

\* memset(ReportData, 0, ...) followed by the five neutral assignments
EmptyReport ==
    [Button |-> {}, HAT |-> HAT_CENTER,
     LX |-> STICK_CENTER, LY |-> STICK_CENTER,
     RX |-> STICK_CENTER, RY |-> STICK_CENTER, VendorSpec |-> 0]

\* a zero-initialised USB_JoystickReport_Input_t (static storage)
ZeroReport ==
    [Button |-> {}, HAT |-> 0, LX |-> 0, LY |-> 0, RX |-> 0, RY |-> 0,
     VendorSpec |-> 0]

---------------------------------------------------------------------------
(* Pieces of GetNextReport.                                                *)

SyncControllerOver(c) == c > ms_2_count(2000)

\* (variant: the commented-out presses of SWITCH_L | SWITCH_R restored)
SyncControllerReport_LR(c) ==
    [EmptyReport EXCEPT
        !.Button = IF c = ms_2_count(500) \/ c = ms_2_count(1000)
                   THEN {"SWITCH_L", "SWITCH_R"} ELSE {}]

\* (variant: the commented-out presses of SWITCH_A restored)
SyncControllerReport_A(c) ==
    [EmptyReport EXCEPT
        !.Button = IF c = ms_2_count(1500) \/ c = ms_2_count(2000)
                   THEN {SWITCH_A} ELSE {}]

\* the report of a counting step of SYNC_CONTROLLER (its button presses are
\* commented out in the source)
SyncControllerReport(c) == EmptyReport

SyncPositionOver(c) == c > ms_2_count(4000)

\* (variant: the clear-screen click held from the first checkpoint on)
SyncPositionReport_Held(c) ==
    [EmptyReport EXCEPT
        !.LX = STICK_MIN,
        !.LY = STICK_MIN,
        !.Button = IF c >= ms_2_count(1500) THEN {SWITCH_LCLICK} ELSE {}]

\* (variant: only the horizontal axis of the left stick driven)
SyncPositionReport_LXOnly(c) ==
    [EmptyReport EXCEPT
        !.LX = STICK_MIN,
        !.Button = IF c = ms_2_count(1500) \/ c = ms_2_count(3000)
                   THEN {SWITCH_LCLICK} ELSE {}]

\* the report of a counting step of SYNC_POSITION
SyncPositionReport(c) ==
    [EmptyReport EXCEPT
        !.LX = STICK_MIN,
        !.LY = STICK_MIN,
        !.Button = IF c = ms_2_count(1500) \/ c = ms_2_count(3000)
                   THEN {SWITCH_LCLICK} ELSE {}]

\* (variant: the scan starts with a move, skipping the pixel at the origin)
SyncPositionExitState_Move == "MOVE"

\* the phase entered when SYNC_POSITION is over
SyncPositionExitState == "STOP"

\* the condition of the outer if of case MOVE
AtRowEnd(x, y) ==
    (x = 0 /\ y % 2 = 1) \/ (x = CanvasMaxX /\ y % 2 = 0)

\* (variant: one more repetition before the down step)
LagPending_OffByOne(lag) == lag <= LagCorrection

\* the condition of the inner if of case MOVE
LagPending(lag) == lag < LagCorrection

\* (variant: the row parity test of the last two branches swapped)
MoveHAT_Swapped(x, y, lag) ==
    IF AtRowEnd(x, y)
    THEN IF LagPending(lag)
         THEN (IF x = 0 THEN HAT_LEFT ELSE HAT_RIGHT)
         ELSE HAT_BOTTOM
    ELSE IF y % 2 = 0 THEN HAT_LEFT ELSE HAT_RIGHT

\* the HAT chosen by case MOVE
MoveHAT(x, y, lag) ==
    IF AtRowEnd(x, y)
    THEN IF LagPending(lag)
         THEN (IF x = 0 THEN HAT_LEFT ELSE HAT_RIGHT)
         ELSE HAT_BOTTOM
    ELSE IF y % 2 = 0 THEN HAT_RIGHT ELSE HAT_LEFT

\* the report of case MOVE
MoveReport(x, y, lag) == [EmptyReport EXCEPT !.HAT = MoveHAT(x, y, lag)]

\* (variant: the assignment state = STOP forgotten)
MoveNextState_Stay == "MOVE"

\* the phase chosen by case MOVE
MoveNextState == "STOP"

\* splat3_lag_correction_count after case MOVE
MoveLag(x, y, lag) ==
    IF AtRowEnd(x, y)
    THEN IF LagPending(lag) THEN lag + 1 ELSE 0
    ELSE lag

\* (variant: the pixel right of the cursor is looked up)
StopReport_NextPixel(img, x, y) ==
    [EmptyReport EXCEPT
        !.Button = IF is_black(img, x + 1, y) THEN {SWITCH_A} ELSE {}]

\* the report of case STOP
StopReport(img, x, y) ==
    [EmptyReport EXCEPT
        !.Button = IF is_black(img, x, y) THEN {SWITCH_A} ELSE {}]

\* (variant: the end-of-canvas test one row late)
StopNextState_Late(y) == IF y > CanvasMaxY + 1 THEN "DONE" ELSE "MOVE"

\* the phase chosen by case STOP
StopNextState(y) == IF y > CanvasMaxY THEN "DONE" ELSE "MOVE"

\* the guard of the position update
Drawing(st) == st # "SYNC_CONTROLLER" /\ st # "SYNC_POSITION" /\ st # "DONE"

\* (variant: the clamp of the step to the right forgotten)
UpdateX_NoClamp(st, hat, x) ==
    IF ~Drawing(st) THEN x
    ELSE IF hat = HAT_RIGHT THEN x + 1
    ELSE IF hat = HAT_LEFT THEN (IF x > 0 THEN x - 1 ELSE x)
    ELSE x

UpdateX(st, hat, x) ==
    IF ~Drawing(st) THEN x
    ELSE IF hat = HAT_RIGHT THEN (IF x < CanvasMaxX THEN x + 1 ELSE x)
    ELSE IF hat = HAT_LEFT THEN (IF x > 0 THEN x - 1 ELSE x)
    ELSE x

UpdateY(st, hat, y) ==
    IF ~Drawing(st) THEN y
    ELSE IF hat = HAT_RIGHT \/ hat = HAT_LEFT THEN y
    ELSE IF hat = HAT_TOP THEN y - 1
    ELSE IF hat = HAT_BOTTOM THEN y + 1
    ELSE y

\* (variant: one replay too few)
ArmedEchoes_Less == ECHOES - 1

\* the echo count armed after a fresh report
ArmedEchoes == ECHOES

\* History: the steps counted on the line of the cursor after a step taken
\* in phase st with the cursor on line y that ends with the cursor on line y2.
LineSteps(st, y, y2, n) ==
    IF y2 # y THEN [MOVE |-> 0, STOP |-> 0]
    ELSE IF st \in {"MOVE", "STOP"} THEN [n EXCEPT ![st] = @ + 1]
    ELSE n

\* The tail of GetNextReport after the switch: the position update for the
\* new phase st from position (x, y), then the copy into last_report.
Commit(rd, st, x, y) ==
    /\ state' = st
    /\ xpos' = UpdateX(st, rd.HAT, x)
    /\ ypos' = UpdateY(st, rd.HAT, y)
    /\ ReportData' = rd
    /\ last_report' = rd
    /\ echoes' = ArmedEchoes
    /\ line_steps' = LineSteps(state, ypos, ypos', line_steps)

---------------------------------------------------------------------------
(* The state machine.                                                      *)

TypeOK ==
    /\ state \in State_t
    /\ echoes \in 0..ECHOES
    /\ splat3_lag_correction_count \in Nat
    /\ command_count \in Nat
    /\ xpos \in Int
    /\ ypos \in Int
    /\ image \in 0..MaxImage
    /\ line_steps \in [{"MOVE", "STOP"} -> Nat]

Init ==
    /\ state = "SYNC_CONTROLLER"
    /\ echoes = 0
    /\ splat3_lag_correction_count = 0
    /\ last_report = ZeroReport
    /\ command_count = 0
    /\ xpos = 0
    /\ ypos = 0
    /\ ReportData = ZeroReport
    /\ image \in 0..MaxImage
    /\ line_steps = [MOVE |-> 0, STOP |-> 0]

\* (variant: the decrement of echoes forgotten)
Echo_NoDecrement ==
    /\ echoes > 0
    /\ ReportData' = last_report
    /\ UNCHANGED <<state, echoes, splat3_lag_correction_count, last_report,
                   command_count, xpos, ypos, image, line_steps>>

\* (variant: the memcpy from last_report forgotten)
Echo_NoCopy ==
    /\ echoes > 0
    /\ ReportData' = EmptyReport
    /\ echoes' = echoes - 1
    /\ UNCHANGED <<state, splat3_lag_correction_count, last_report,
                   command_count, xpos, ypos, image, line_steps>>

\* if (echoes > 0) { memcpy(ReportData, &last_report, ...); echoes--; return; }
Echo ==
    /\ echoes > 0
    /\ ReportData' = last_report
    /\ echoes' = echoes - 1
    /\ UNCHANGED <<state, splat3_lag_correction_count, last_report,
                   command_count, xpos, ypos, image, line_steps>>

SyncController ==
    /\ echoes = 0
    /\ state = "SYNC_CONTROLLER"
    /\ IF SyncControllerOver(command_count)
       THEN /\ command_count' = 0
            /\ Commit(EmptyReport, "SYNC_POSITION", xpos, ypos)
       ELSE /\ command_count' = command_count + 1
            /\ Commit(SyncControllerReport(command_count), "SYNC_CONTROLLER",
                      xpos, ypos)
    /\ UNCHANGED <<splat3_lag_correction_count, image>>

SyncPosition ==
    /\ echoes = 0
    /\ state = "SYNC_POSITION"
    /\ IF SyncPositionOver(command_count)
       THEN /\ command_count' = 0
            /\ Commit(EmptyReport, SyncPositionExitState, 0, 0)
       ELSE /\ command_count' = command_count + 1
            /\ Commit(SyncPositionReport(command_count), "SYNC_POSITION",
                      xpos, ypos)
    /\ UNCHANGED <<splat3_lag_correction_count, image>>

Move ==
    /\ echoes = 0
    /\ state = "MOVE"
    /\ splat3_lag_correction_count' =
           MoveLag(xpos, ypos, splat3_lag_correction_count)
    /\ Commit(MoveReport(xpos, ypos, splat3_lag_correction_count),
              MoveNextState, xpos, ypos)
    /\ UNCHANGED <<command_count, image>>

Stop ==
    /\ echoes = 0
    /\ state = "STOP"
    /\ Commit(StopReport(image, xpos, ypos), StopNextState(ypos), xpos, ypos)
    /\ UNCHANGED <<splat3_lag_correction_count, command_count, image>>

\* (variant: the report is handed back without having been prepared)
Done_Unprepared ==
    /\ echoes = 0
    /\ state = "DONE"
    /\ ReportData' = ZeroReport
    /\ UNCHANGED <<state, echoes, splat3_lag_correction_count, last_report,
                   command_count, xpos, ypos, image, line_steps>>

\* case DONE: return;  (the report is the empty report prepared on entry)
Done ==
    /\ echoes = 0
    /\ state = "DONE"
    /\ ReportData' = EmptyReport
    /\ UNCHANGED <<state, echoes, splat3_lag_correction_count, last_report,
                   command_count, xpos, ypos, image, line_steps>>

GetNextReport ==
    \/ Echo
    \/ SyncController
    \/ SyncPosition
    \/ Move
    \/ Stop
    \/ Done

Next == GetNextReport

Spec == Init /\ [][Next]_vars

\* The host keeps polling: Endpoint_IsINReady() is true again and again, so
\* a call of GetNextReport that would change the state is eventually made.
LiveSpec == Spec /\ WF_vars(GetNextReport)

---------------------------------------------------------------------------
(* Properties.                                                             *)

\* a call of GetNextReport that synthesizes a report is about to be made
Fresh(st) == echoes = 0 /\ state = st

OnCanvas(x, y) == x \in 0..CanvasMaxX /\ y \in 0..CanvasMaxY

\* every lookup of case STOP stays inside image_data[0x12c1]
LookupInArray ==
    Fresh("STOP") =>
        ((xpos \div 8) + (ypos * RowBytes)) \in 0..(ImageLen - 1)

\* C1: in every reachable state the cursor is on the canvas,
\* 0 <= xpos <= 319 and 0 <= ypos <= 119.
CursorOnCanvas == OnCanvas(xpos, ypos)

\* C2: every bitmap lookup is_black(xpos, ypos) made by a STOP step uses
\* coordinates on the canvas, x in 0..319 and y in 0..119.
StopLookupOnCanvas == [][Fresh("STOP") => OnCanvas(xpos, ypos)]_vars

\* a replay returns last_report and only decrements echoes
ReplayStep ==
    echoes > 0 =>
        /\ ReportData' = last_report
        /\ last_report' = last_report
        /\ echoes' = echoes - 1

\* a fresh report is kept in last_report with ECHOES replays to come
ArmsEchoes == echoes' = ECHOES /\ last_report' = ReportData'

\* C3 (as stated): every call made with echoes = 0 is followed by exactly
\* ECHOES calls that replay its report, and only then by the next call made
\* with echoes = 0.
EchoLawAllPhases == [][(echoes = 0 => ArmsEchoes) /\ ReplayStep]_vars

\* C3 (amended): every call made with echoes = 0 in a phase other than DONE
\* is followed by exactly ECHOES calls that replay its report, and only then
\* by the next call made with echoes = 0.
EchoLaw ==
    [][((echoes = 0 /\ state # "DONE") => ArmsEchoes) /\ ReplayStep]_vars

\* a MOVE report has been replayed twice
EchoLawWitness ==
    /\ echoes = 0
    /\ state = "STOP"
    /\ ReportData = last_report
    /\ ReportData.HAT = HAT_RIGHT
    /\ xpos = 7

\* C4: once ypos exceeds 119 the next fresh step enters DONE, and every
\* call made in DONE leaves state = DONE and xpos, ypos, command_count and the
\* lag counter unchanged.
Termination ==
    [][ /\ (ypos > CanvasMaxY => state \in {"STOP", "DONE"})
        /\ ((echoes = 0 /\ ypos > CanvasMaxY) => state' = "DONE")
        /\ (state = "DONE" =>
               /\ state' = "DONE"
               /\ UNCHANGED <<xpos, ypos, command_count,
                              splat3_lag_correction_count>>) ]_vars

\* DONE has been entered and a call has been made in it
TerminationWitness ==
    /\ state = "DONE"
    /\ ypos > CanvasMaxY
    /\ echoes = 0
    /\ ReportData = EmptyReport

\* C5: when GetNextReport keeps being called, the machine started in
\* SYNC_CONTROLLER reaches DONE for every bitmap, having stepped down once at
\* the end of each of the 120 rows.
ReachesDone == <>(state = "DONE" /\ ypos = CanvasMaxY + 1)

\* DONE is reached with the bitmap that inks the last lookup
ReachesDoneWitness ==
    /\ state = "DONE"
    /\ ypos = CanvasMaxY + 1
    /\ xpos = 0
    /\ image = 2
    /\ last_report.Button = {SWITCH_A}

\* C6: in every fresh STOP step the ink bit SWITCH_A is set in the produced
\* report if and only if is_black(xpos, ypos) holds for the cursor of that
\* step.
InkCorrect ==
    [][Fresh("STOP") =>
          ((SWITCH_A \in ReportData'.Button) <=> is_black(image, xpos, ypos))
      ]_vars

\* a STOP step has inked a pixel in the middle of the canvas
InkCorrectWitness ==
    /\ state = "MOVE"
    /\ echoes = ECHOES
    /\ SWITCH_A \in ReportData.Button
    /\ is_black(image, xpos, ypos)
    /\ ~is_black(image, xpos + 1, ypos)
    /\ ypos = 60

\* the horizontal direction of row y
RowHAT(y) == IF y % 2 = 0 THEN HAT_RIGHT ELSE HAT_LEFT

\* the column at which row y ends
RowEndX(y) == IF y % 2 = 0 THEN CanvasMaxX ELSE 0

\* C7: on every row y of 0..119 the fresh MOVE steps that move along the row
\* emit HAT_RIGHT when y is even and HAT_LEFT when y is odd, one column per
\* step, and the row is left only from its last column, so that even rows are
\* visited at x = 0..319 in increasing order and odd rows at x = 319..0 in
\* decreasing order.
SerpentineOrder ==
    [][ /\ Fresh("MOVE") =>
              /\ ypos \in 0..CanvasMaxY
              /\ ReportData'.HAT \in {RowHAT(ypos), HAT_BOTTOM}
              /\ (xpos # RowEndX(ypos) =>
                     /\ ReportData'.HAT = RowHAT(ypos)
                     /\ ypos' = ypos
                     /\ xpos' = IF ypos % 2 = 0 THEN xpos + 1 ELSE xpos - 1)
        /\ (ypos' # ypos =>
               /\ ypos' = ypos + 1
               /\ xpos = RowEndX(ypos)
               /\ xpos' = xpos)
        /\ (~Fresh("MOVE") => xpos' = xpos /\ ypos' = ypos) ]_vars

\* an odd row is being walked leftwards
SerpentineOrderWitness ==
    /\ state = "STOP"
    /\ echoes = ECHOES
    /\ ypos = CanvasMaxY
    /\ xpos = 100
    /\ ReportData.HAT = HAT_LEFT

\* C8: at each row end (xpos = 319 on an even row, xpos = 0 on an odd row)
\* the direction of the row is emitted by exactly 10 consecutive MOVE steps
\* that leave the position unchanged, then one HAT_BOTTOM step fires;
\* splat3_lag_correction_count is 0 right after the down step and stays
\* within 0..10.
LagCorrectionLaw ==
    [][ /\ splat3_lag_correction_count \in 0..LagCorrection
        /\ splat3_lag_correction_count' \in 0..LagCorrection
        /\ (Fresh("MOVE") /\ ~AtRowEnd(xpos, ypos)) =>
               /\ splat3_lag_correction_count = 0
               /\ splat3_lag_correction_count' = 0
               /\ ReportData'.HAT # HAT_BOTTOM
        /\ (Fresh("MOVE") /\ AtRowEnd(xpos, ypos)
                /\ splat3_lag_correction_count < LagCorrection) =>
               /\ ReportData'.HAT = RowHAT(ypos)
               /\ xpos' = xpos /\ ypos' = ypos
               /\ splat3_lag_correction_count' =
                      splat3_lag_correction_count + 1
        /\ (Fresh("MOVE") /\ AtRowEnd(xpos, ypos)
                /\ splat3_lag_correction_count = LagCorrection) =>
               /\ ReportData'.HAT = HAT_BOTTOM
               /\ xpos' = xpos /\ ypos' = ypos + 1
               /\ splat3_lag_correction_count' = 0
        /\ (~Fresh("MOVE") =>
               splat3_lag_correction_count' = splat3_lag_correction_count)
      ]_vars

\* the down step at the end of an odd row has just fired
LagCorrectionWitness ==
    /\ state = "STOP"
    /\ echoes = ECHOES
    /\ ReportData.HAT = HAT_BOTTOM
    /\ splat3_lag_correction_count = 0
    /\ xpos = 0
    /\ ypos = 2

\* C9: the step from SYNC_CONTROLLER to SYNC_POSITION is taken after exactly
\* ms_2_count(2000) logical steps (the step itself counted or not), and
\* command_count is 0 after it.
SyncControllerDuration ==
    [][(state = "SYNC_CONTROLLER" /\ state' = "SYNC_POSITION") =>
          /\ (command_count = ms_2_count(2000)
                \/ command_count + 1 = ms_2_count(2000))
          /\ command_count' = 0 ]_vars

\* C10: the step that leaves SYNC_POSITION, taken once its counter has
\* passed ms_2_count(4000), ends with the cursor at (0,0), in phase STOP and
\* with command_count = 0; no STOP step is taken before it, so the first
\* bitmap lookup is at (0,0).
SyncPositionExit ==
    [][ /\ (state = "SYNC_POSITION" /\ state' # "SYNC_POSITION") =>
               /\ command_count > ms_2_count(4000)
               /\ state' = "STOP"
               /\ xpos' = 0 /\ ypos' = 0
               /\ command_count' = 0
        /\ (state' = "STOP" /\ state \in {"SYNC_CONTROLLER", "SYNC_POSITION"})
               => (state = "SYNC_POSITION" /\ xpos' = 0 /\ ypos' = 0)
        /\ (state \in {"SYNC_CONTROLLER", "SYNC_POSITION"}
               => state' \in {"SYNC_CONTROLLER", "SYNC_POSITION", "STOP"})
      ]_vars

\* SYNC_POSITION has just been left
SyncPositionExitWitness ==
    /\ state = "STOP"
    /\ echoes = ECHOES
    /\ xpos = 0 /\ ypos = 0
    /\ command_count = 0
    /\ ReportData = EmptyReport

\* the two checkpoints of SYNC_POSITION at which the screen is cleared
ClearScreenAt(c) == c = ms_2_count(1500) \/ c = ms_2_count(3000)

\* C11: over a whole run the clear-screen bit SWITCH_LCLICK is set in a
\* fresh report at exactly two logical steps, the SYNC_POSITION steps taken
\* with command_count = ms_2_count(1500) and command_count = ms_2_count(3000)
\* (each value is passed once: the counter starts at 0, grows by one per step
\* and the phase is entered once), and in no other fresh report.
ClearScreenCheckpoints ==
    [][ /\ echoes = 0 =>
              ((SWITCH_LCLICK \in ReportData'.Button)
                  <=> (state = "SYNC_POSITION" /\ ClearScreenAt(command_count)))
        /\ ms_2_count(1500) < ms_2_count(3000)
        /\ ms_2_count(3000) <= ms_2_count(4000)
        /\ (state' = "SYNC_POSITION" /\ state # "SYNC_POSITION") =>
               (state = "SYNC_CONTROLLER" /\ command_count' = 0)
        /\ (state' = "SYNC_CONTROLLER" => state = "SYNC_CONTROLLER")
        /\ (state = "SYNC_POSITION" /\ state' = "SYNC_POSITION") =>
               command_count' \in {command_count, command_count + 1}
      ]_vars

\* the second clear-screen report has just been synthesized
ClearScreenCheckpointsWitness ==
    /\ state = "SYNC_POSITION"
    /\ echoes = ECHOES
    /\ command_count = ms_2_count(3000) + 1
    /\ ReportData.Button = {SWITCH_LCLICK}

\* C12 (as stated): every fresh call dispatched in SYNC_POSITION returns a
\* report with LX, LY, RX and RY all equal to STICK_MIN.
SyncPositionAllSticksMin ==
    [][Fresh("SYNC_POSITION") =>
          /\ ReportData'.LX = STICK_MIN
          /\ ReportData'.LY = STICK_MIN
          /\ ReportData'.RX = STICK_MIN
          /\ ReportData'.RY = STICK_MIN ]_vars

\* C12 (amended): every fresh call dispatched in SYNC_POSITION that stays in
\* the phase drives the left stick to its minimum, LX = LY = STICK_MIN, and
\* leaves the right stick centered, RX = RY = STICK_CENTER; the call that
\* leaves the phase returns the neutral report.
SyncPositionLeftStickMin ==
    [][Fresh("SYNC_POSITION") =>
          IF state' = "SYNC_POSITION"
          THEN /\ ReportData'.LX = STICK_MIN
               /\ ReportData'.LY = STICK_MIN
               /\ ReportData'.RX = STICK_CENTER
               /\ ReportData'.RY = STICK_CENTER
          ELSE ReportData' = EmptyReport ]_vars

\* a counting step of SYNC_POSITION has driven the left stick only
SyncPositionLeftStickMinWitness ==
    /\ state = "SYNC_POSITION"
    /\ echoes = ECHOES
    /\ command_count = 5
    /\ ReportData.LX = STICK_MIN /\ ReportData.LY = STICK_MIN
    /\ ReportData.RX = STICK_CENTER /\ ReportData.RY = STICK_CENTER

\* C13: with the bitmap whose only ink bit is (0,0) (bitmap 1), a fresh STOP step sets
\* the ink bit exactly when it is taken at (0,0), and the only STOP step
\* taken at (0,0) is the first one after SYNC_POSITION (no MOVE report
\* precedes it); no later STOP step sets the bit.
SinglePixelInk ==
    [][(image = 1 /\ Fresh("STOP")) =>
          /\ (SWITCH_A \in ReportData'.Button) <=> (xpos = 0 /\ ypos = 0)
          /\ (xpos = 0 /\ ypos = 0) =>
                 /\ last_report = EmptyReport
                 /\ line_steps = [MOVE |-> 0, STOP |-> 0]
          /\ (xpos # 0 \/ ypos # 0) => last_report.HAT # HAT_CENTER ]_vars

\* the first STOP step has inked the pixel (0,0) of the single-pixel bitmap
SinglePixelInkWitness ==
    /\ image = 1
    /\ state = "MOVE"
    /\ echoes = ECHOES
    /\ xpos = 0 /\ ypos = 0
    /\ ReportData.Button = {SWITCH_A}
    /\ line_steps.STOP = 1

WellFormed(r) ==
    /\ r.HAT \in {HAT_CENTER, HAT_TOP, HAT_BOTTOM, HAT_LEFT, HAT_RIGHT}
    /\ r.Button \subseteq {SWITCH_A, SWITCH_LCLICK}

\* C14: every report returned has HAT in {center, up, down, left, right}
\* and no button bit other than SWITCH_A and SWITCH_LCLICK.
ReportWellFormed == [][WellFormed(ReportData')]_vars

\* the first replay of a down step has been returned
ReportWellFormedWitness ==
    /\ ReportData.HAT = HAT_BOTTOM
    /\ echoes = 1
    /\ ypos = 1

\* C15: a call made while echoes > 0 returns last_report, decrements echoes
\* by one and leaves state, xpos, ypos, command_count,
\* splat3_lag_correction_count and last_report unchanged.
EchoIsPureReplay ==
    [][echoes > 0 =>
          /\ ReportData' = last_report
          /\ echoes' = echoes - 1
          /\ UNCHANGED <<state, xpos, ypos, command_count,
                         splat3_lag_correction_count, last_report>> ]_vars

\* the first replay of a SYNC_POSITION report has been returned
EchoIsPureReplayWitness ==
    /\ echoes = ECHOES - 1
    /\ state = "SYNC_POSITION"
    /\ ReportData = last_report
    /\ ReportData.LX = STICK_MIN
    /\ command_count = 1

\* C16: the only phase changes are SYNC_CONTROLLER -> SYNC_POSITION,
\* SYNC_POSITION -> STOP, STOP -> MOVE, MOVE -> STOP and STOP -> DONE (so no
\* sync phase is re-entered), and from the exit of SYNC_POSITION to DONE the
\* fresh steps alternate: a fresh MOVE step ends in STOP, a fresh STOP step
\* ends in MOVE or DONE, a replay changes no phase.
PhaseOrder ==
    [][ /\ state' # state =>
              <<state, state'>> \in {<<"SYNC_CONTROLLER", "SYNC_POSITION">>,
                                     <<"SYNC_POSITION", "STOP">>,
                                     <<"STOP", "MOVE">>,
                                     <<"MOVE", "STOP">>,
                                     <<"STOP", "DONE">>}
        /\ Fresh("MOVE") => state' = "STOP"
        /\ Fresh("STOP") => state' \in {"MOVE", "DONE"}
        /\ echoes > 0 => state' = state ]_vars

\* the last STOP step has just entered DONE from the white bitmap
PhaseOrderWitness ==
    /\ state = "DONE"
    /\ echoes = ECHOES
    /\ image = 0
    /\ last_report = EmptyReport

\* C17: each canvas line is drawn with exactly 320 MOVE steps and 320 STOP
\* steps (counted when the down step leaves the line), and each such step is
\* sent as 3 reports, the fresh one and ECHOES replays.
PerLineCost ==
    [][ /\ (Fresh("MOVE") /\ ypos' # ypos) =>
               /\ line_steps.MOVE + 1 = CanvasMaxX + 1
               /\ line_steps.STOP = CanvasMaxX + 1
        /\ (echoes = 0 /\ state \in {"MOVE", "STOP"}) => echoes' = ECHOES
      ]_vars

\* the place of pixel (x, y) in the serpentine order
Idx(x, y) ==
    y * (CanvasMaxX + 1) + (IF y % 2 = 0 THEN x ELSE CanvasMaxX - x)

\* the pixel at place i of the serpentine order
PosOf(i) ==
    LET y == i \div (CanvasMaxX + 1)
        c == i % (CanvasMaxX + 1)
    IN  <<IF y % 2 = 0 THEN c ELSE CanvasMaxX - c, y>>

Pixels == (CanvasMaxX + 1) * (CanvasMaxY + 1)

\* C18: in a complete run every canvas pixel gets a fresh STOP step before
\* DONE: the first STOP step is taken at place 0 of the serpentine order, a
\* MOVE step advances the cursor by at most one place and is followed by a
\* STOP step, DONE is entered only by the STOP step taken past the last
\* place, and DONE is reached.
Coverage ==
    /\ [][ /\ (state = "SYNC_POSITION" /\ state' # "SYNC_POSITION") =>
                  (state' = "STOP" /\ Idx(xpos', ypos') = 0)
           /\ state \in {"MOVE", "STOP"} =>
                  /\ <<xpos, ypos>> = PosOf(Idx(xpos, ypos))
                  /\ Idx(xpos, ypos) \in 0..Pixels
           /\ Fresh("MOVE") =>
                  /\ state' = "STOP"
                  /\ Idx(xpos', ypos') \in
                         {Idx(xpos, ypos), Idx(xpos, ypos) + 1}
           /\ Fresh("STOP") =>
                  /\ xpos' = xpos /\ ypos' = ypos
                  /\ state' = IF Idx(xpos, ypos) = Pixels
                              THEN "DONE" ELSE "MOVE"
           /\ echoes > 0 =>
                  (state' = state /\ xpos' = xpos /\ ypos' = ypos) ]_vars
    /\ <>(state = "DONE")

\* the STOP step of the last pixel of the canvas, (0,119), has been taken
CoverageWitness ==
    /\ state = "MOVE"
    /\ echoes = ECHOES
    /\ xpos = 0
    /\ ypos = CanvasMaxY
    /\ line_steps.STOP = CanvasMaxX + 1

\* C19: once state = DONE and the replays of the last STOP report are
\* exhausted, every call returns the neutral report (sticks centered,
\* HAT_CENTER, no button), whatever the last report was.
DoneReturnsNeutral ==
    [][(state = "DONE" /\ echoes = 0) => ReportData' = EmptyReport]_vars

\* a call in DONE has returned the neutral report after an inked last report
DoneReturnsNeutralWitness ==
    /\ state = "DONE"
    /\ echoes = 0
    /\ last_report.Button = {SWITCH_A}
    /\ ReportData = EmptyReport
    /\ ReportData # last_report

SticksCentered(r) ==
    /\ r.LX = STICK_CENTER /\ r.LY = STICK_CENTER
    /\ r.RX = STICK_CENTER /\ r.RY = STICK_CENTER

\* C20: no report returned, fresh or replayed, has both a non-center HAT
\* and the ink bit; a non-center HAT only appears in reports synthesized in
\* MOVE, the ink bit only in reports synthesized in STOP, non-center stick
\* values only in reports synthesized in SYNC_POSITION.
MoveInkSeparate ==
    [][ /\ ~(ReportData'.HAT # HAT_CENTER /\ SWITCH_A \in ReportData'.Button)
        /\ echoes = 0 =>
               /\ (ReportData'.HAT # HAT_CENTER => state = "MOVE")
               /\ (SWITCH_A \in ReportData'.Button => state = "STOP")
               /\ (~SticksCentered(ReportData') => state = "SYNC_POSITION")
      ]_vars

\* an inked STOP report has been replayed twice
MoveInkSeparateWitness ==
    /\ state = "MOVE"
    /\ echoes = 0
    /\ ReportData.Button = {SWITCH_A}
    /\ ReportData.HAT = HAT_CENTER
    /\ ypos = 3

=============================================================================
